---- MODULE Spec2Model ----
(***************************************************************************)
(* A model of ShadowsocksConfig.ts: the self-validating config fields      *)
(* (Host, Port, Method, Password, Tag, Plugin), the Config aggregate with  *)
(* its revalidating setters, the two URI classes (LegacyBase64URI,         *)
(* Sip002URI) and the dispatcher ShadowsocksURI.parse.                     *)
(*                                                                         *)
(* A JavaScript string is a sequence of one-character strings over         *)
(* printable ASCII.  The library primitives the code calls (base64, the    *)
(* WHATWG URL parser, encodeURIComponent / decodeURIComponent) are         *)
(* modelled by what they compute on such strings.                          *)
(***************************************************************************)
EXTENDS Integers, Sequences, FiniteSets, TLC

\* ------------------------------------------------------------------ bounds
\* The number of setter calls made on one object.
MaxCalls == 2
\* The longest port text drawn as an input of Port.
MaxPortLen == 3

\* ----------------------------------------------------------- characters
\* Printable ASCII, code 32 (" ") to code 126 ("~"), in code order.  Code 96
\* (the grave accent), which a TLA+ string cannot hold, is written "\x96".
Ascii ==
  << " ", "!", "\"", "#", "$", "%", "&", "'", "(", ")", "*", "+", ",", "-", ".", "/",
     "0", "1", "2", "3", "4", "5", "6", "7", "8", "9", ":", ";", "<", "=", ">", "?",
     "@", "A", "B", "C", "D", "E", "F", "G", "H", "I", "J", "K", "L", "M", "N", "O",
     "P", "Q", "R", "S", "T", "U", "V", "W", "X", "Y", "Z", "[", "\\", "]", "^", "_",
     "\\x96", "a", "b", "c", "d", "e", "f", "g", "h", "i", "j", "k", "l", "m", "n", "o",
     "p", "q", "r", "s", "t", "u", "v", "w", "x", "y", "z", "{", "|", "}", "~" >>

AsciiSet == { Ascii[i] : i \in 1..Len(Ascii) }

OrdTable == [ c \in AsciiSet |-> 31 + (CHOOSE i \in 1..Len(Ascii) : Ascii[i] = c) ]

\* charCodeAt: the code of a character.  A byte outside printable ASCII is
\* written "\x<code>" (see Chr) and only ever produced by a decoder.
Ord(c) == IF c \in AsciiSet THEN OrdTable[c] ELSE 0

\* String.fromCharCode for one byte.
Chr(n) == IF n >= 32 /\ n <= 126 THEN Ascii[n - 31] ELSE "\\x" \o ToString(n)

IsDigit(c) == Ord(c) >= 48 /\ Ord(c) <= 57
IsUpper(c) == Ord(c) >= 65 /\ Ord(c) <= 90
IsLower(c) == Ord(c) >= 97 /\ Ord(c) <= 122
IsAlnum(c) == IsDigit(c) \/ IsUpper(c) \/ IsLower(c)
IsHexDigit(c) == IsDigit(c) \/ (Ord(c) >= 65 /\ Ord(c) <= 70) \/ (Ord(c) >= 97 /\ Ord(c) <= 102)

HexVal(c) ==
  IF IsDigit(c) THEN Ord(c) - 48
  ELSE IF IsUpper(c) THEN Ord(c) - 55
  ELSE Ord(c) - 87

ToLowerChar(c) == IF IsUpper(c) THEN Chr(Ord(c) + 32) ELSE c

HexDigitsUpper == << "0", "1", "2", "3", "4", "5", "6", "7", "8", "9", "A", "B", "C", "D", "E", "F" >>
HexDigitsLower == << "0", "1", "2", "3", "4", "5", "6", "7", "8", "9", "a", "b", "c", "d", "e", "f" >>

\* -------------------------------------------------------------- strings
\* A sequence given as a function on 1..n, held as a tuple: TLC evaluates
\* a function constructor again at each application, a tuple once.
AsTuple(f) == f \o << >>

\* F of the value v: a local constant of the code, computed once.
Let(v, F(_)) == F(v)

\* The JavaScript string written as a TLA+ string literal.
S(str) == AsTuple([ i \in 1..Len(str) |-> SubSeq(str, i, i) ])

\* String.prototype.indexOf(c): the 0-based index of the first c, or -1.
IndexOf(s, c) ==
  IF \E i \in 1..Len(s) : s[i] = c
  THEN (CHOOSE i \in 1..Len(s) : s[i] = c /\ \A j \in 1..(i - 1) : s[j] # c) - 1
  ELSE -1

\* The 0-based index of the last c, or -1.
LastIndexOf(s, c) ==
  IF \E i \in 1..Len(s) : s[i] = c
  THEN (CHOOSE i \in 1..Len(s) : s[i] = c /\ \A j \in (i + 1)..Len(s) : s[j] # c) - 1
  ELSE -1

\* String.prototype.substring(from, to) with 0-based, end-exclusive indices.
Substring(s, from, to) == SubSeq(s, from + 1, to)

\* String.prototype.substring(from).
SubstringFrom(s, from) == SubSeq(s, from + 1, Len(s))

\* String.prototype.startsWith(p).
StartsWith(s, p) == Len(s) >= Len(p) /\ SubSeq(s, 1, Len(p)) = p

RECURSIVE SplitOn(_, _)
\* String.prototype.split(c): the pieces between the occurrences of c.
SplitOn(s, c) ==
  LET i == IndexOf(s, c)
  IN  IF i = -1 THEN << s >>
      ELSE << Substring(s, 0, i) >> \o SplitOn(SubstringFrom(s, i + 1), c)

RECURSIVE Flatten(_)
Flatten(ss) == IF ss = << >> THEN << >> ELSE Head(ss) \o Flatten(Tail(ss))

MapSeq(s, F(_)) == AsTuple([ i \in 1..Len(s) |-> F(s[i]) ])

RECURSIVE NatToString(_)
\* The decimal text of a natural number.
NatToString(n) ==
  IF n < 10 THEN << Chr(48 + n) >>
  ELSE NatToString(n \div 10) \o << Chr(48 + (n % 10)) >>

\* ---------------------------------------------------------- JS values
\* The values client code can hand to a constructor or setter: a string,
\* a number (an integer, or a decimal fraction int.frac), or undefined
\* (a missing property).  A number is held as the text Number.prototype.toString
\* gives it.
Str(s) == [ t |-> "string", v |-> s ]
Num(n) == [ t |-> "number", v |-> IF n < 0 THEN << "-" >> \o NatToString(0 - n) ELSE NatToString(n) ]
Frac(n, f) == [ t |-> "number", v |-> NatToString(n) \o << "." >> \o NatToString(f) ]
Undefined == [ t |-> "undefined", v |-> << >> ]

IsStr(x) == x.t = "string"
IsUndefined(x) == x.t = "undefined"

\* Template-literal interpolation `${x}`: ToString of a JS value.
Interpolate(x) == IF x.t = "undefined" THEN S("undefined") ELSE x.v

\* --------------------------------------------------------------- base64
B64Alphabet ==
  << "A", "B", "C", "D", "E", "F", "G", "H", "I", "J", "K", "L", "M", "N", "O", "P",
     "Q", "R", "S", "T", "U", "V", "W", "X", "Y", "Z", "a", "b", "c", "d", "e", "f",
     "g", "h", "i", "j", "k", "l", "m", "n", "o", "p", "q", "r", "s", "t", "u", "v",
     "w", "x", "y", "z", "0", "1", "2", "3", "4", "5", "6", "7", "8", "9", "+", "/" >>

B64Set == { B64Alphabet[i] : i \in 1..64 }

B64Index == [ c \in B64Set |-> (CHOOSE i \in 1..64 : B64Alphabet[i] = c) - 1 ]

RECURSIVE B64EncodeBytes(_)
B64EncodeBytes(b) ==
  IF Len(b) = 0 THEN << >>
  ELSE IF Len(b) = 1 THEN
    << B64Alphabet[(b[1] \div 4) + 1], B64Alphabet[((b[1] % 4) * 16) + 1], "=", "=" >>
  ELSE IF Len(b) = 2 THEN
    << B64Alphabet[(b[1] \div 4) + 1],
       B64Alphabet[((b[1] % 4) * 16 + (b[2] \div 16)) + 1],
       B64Alphabet[((b[2] % 16) * 4) + 1], "=" >>
  ELSE
    << B64Alphabet[(b[1] \div 4) + 1],
       B64Alphabet[((b[1] % 4) * 16 + (b[2] \div 16)) + 1],
       B64Alphabet[((b[2] % 16) * 4 + (b[3] \div 64)) + 1],
       B64Alphabet[(b[3] % 64) + 1] >>
    \o B64EncodeBytes(SubSeq(b, 4, Len(b)))

\* btoa / base-64's encode: standard base64 with '=' padding.
b64Encode(s) == B64EncodeBytes(MapSeq(s, Ord))

RECURSIVE B64DecodeSextets(_)
B64DecodeSextets(x) ==
  IF Len(x) < 2 THEN << >>
  ELSE IF Len(x) = 2 THEN << Chr(x[1] * 4 + (x[2] \div 16)) >>
  ELSE IF Len(x) = 3 THEN
    << Chr(x[1] * 4 + (x[2] \div 16)), Chr((x[2] % 16) * 16 + (x[3] \div 4)) >>
  ELSE
    << Chr(x[1] * 4 + (x[2] \div 16)), Chr((x[2] % 16) * 16 + (x[3] \div 4)),
       Chr((x[3] % 4) * 64 + x[4]) >>
    \o B64DecodeSextets(SubSeq(x, 5, Len(x)))

\* The input of a decode with ASCII whitespace removed and, when its length
\* is a multiple of four, one or two trailing '=' removed.
B64Strip(s) ==
  LET t == SelectSeq(s, LAMBDA c : c # " ")
      n == Len(t)
  IN  IF n % 4 = 0 /\ n >= 2 /\ t[n] = "=" /\ t[n - 1] = "=" THEN SubSeq(t, 1, n - 2)
      ELSE IF n % 4 = 0 /\ n >= 1 /\ t[n] = "=" THEN SubSeq(t, 1, n - 1)
      ELSE t

\* atob / base-64's decode: [ok, v].  It throws (ok = FALSE) when the stripped
\* input has length 1 mod 4 or holds a character outside the base64 alphabet.
b64Decode(s) ==
  Let(B64Strip(s),
      LAMBDA t :
        IF Len(t) % 4 = 1 \/ \E k \in 1..Len(t) : t[k] \notin B64Set
        THEN [ ok |-> FALSE, v |-> << >> ]
        ELSE [ ok |-> TRUE, v |-> B64DecodeSextets(MapSeq(t, LAMBDA c : B64Index[c])) ])

\* ---------------------------------------------------- percent-encoding
PctByte(n) == << "%", HexDigitsUpper[(n \div 16) + 1], HexDigitsUpper[(n % 16) + 1] >>

\* s with every character of the set `enc` replaced by its %XX form.
PctEncode(s, enc) ==
  Flatten(AsTuple([ i \in 1..Len(s) |-> IF s[i] \in enc THEN PctByte(Ord(s[i])) ELSE << s[i] >> ]))

\* The characters encodeURIComponent leaves alone: A-Z a-z 0-9 - _ . ! ~ * ' ( )
UriUnreserved == { c \in AsciiSet : IsAlnum(c) } \cup { "-", "_", ".", "!", "~", "*", "'", "(", ")" }

encodeURIComponent(s) == PctEncode(s, AsciiSet \ UriUnreserved)

RECURSIVE DecodeURIComponentFrom(_)
DecodeURIComponentFrom(s) ==
  IF s = << >> THEN [ ok |-> TRUE, v |-> << >> ]
  ELSE IF s[1] # "%" THEN
    LET r == DecodeURIComponentFrom(Tail(s))
    IN  [ ok |-> r.ok, v |-> << s[1] >> \o r.v ]
  ELSE IF Len(s) >= 3 /\ IsHexDigit(s[2]) /\ IsHexDigit(s[3])
          /\ HexVal(s[2]) * 16 + HexVal(s[3]) < 128 THEN
    LET r == DecodeURIComponentFrom(SubSeq(s, 4, Len(s)))
    IN  [ ok |-> r.ok, v |-> << Chr(HexVal(s[2]) * 16 + HexVal(s[3])) >> \o r.v ]
  ELSE [ ok |-> FALSE, v |-> << >> ]

\* decodeURIComponent: [ok, v]; it throws URIError (ok = FALSE) on a '%' that
\* two hex digits do not follow.  An escape of a byte above 127 starts a
\* multi-byte character, outside the alphabet modelled here: no input of the
\* model holds one, and it is reported as a failure.
decodeURIComponent(s) == DecodeURIComponentFrom(s)

RECURSIVE PercentDecode(_)
\* The URL standard's percent-decode: a '%' that two hex digits do not follow
\* stays as it is.
PercentDecode(s) ==
  IF s = << >> THEN << >>
  ELSE IF s[1] = "%" /\ Len(s) >= 3 /\ IsHexDigit(s[2]) /\ IsHexDigit(s[3])
  THEN << Chr(HexVal(s[2]) * 16 + HexVal(s[3])) >> \o PercentDecode(SubSeq(s, 4, Len(s)))
  ELSE << s[1] >> \o PercentDecode(Tail(s))

\* ------------------------------------------------ WHATWG URL: host parser
RECURSIVE JoinWith(_, _)
JoinWith(ss, sep) ==
  IF Len(ss) = 0 THEN << >>
  ELSE IF Len(ss) = 1 THEN ss[1]
  ELSE ss[1] \o sep \o JoinWith(Tail(ss), sep)

\* A number read so far: its four little-endian bytes, and whether it
\* exceeds them.
IPv4Zero == [ ok |-> TRUE, b |-> << 0, 0, 0, 0 >>, over |-> FALSE ]
IPv4Failure == [ ok |-> FALSE, b |-> << 0, 0, 0, 0 >>, over |-> FALSE ]

\* One step of reading a number in radix r into four little-endian bytes.
MulAdd(n, r, d) ==
  LET t1 == n.b[1] * r + d
      t2 == n.b[2] * r + (t1 \div 256)
      t3 == n.b[3] * r + (t2 \div 256)
      t4 == n.b[4] * r + (t3 \div 256)
  IN  [ n EXCEPT !.b = << t1 % 256, t2 % 256, t3 % 256, t4 % 256 >>,
                 !.over = n.over \/ t4 \div 256 > 0 ]

RECURSIVE ReadRadix(_, _, _)
ReadRadix(s, r, n) ==
  IF s = << >> THEN n ELSE ReadRadix(Tail(s), r, MulAdd(n, r, HexVal(s[1])))

\* The radix the IPv4 number parser reads s in: 0x or 0X starts a hexadecimal
\* number, another leading 0 an octal one.
IPv4Radix(s) ==
  IF Len(s) >= 2 /\ s[1] = "0" /\ s[2] \in { "x", "X" } THEN 16
  ELSE IF Len(s) >= 2 /\ s[1] = "0" THEN 8
  ELSE 10

\* The digits after the radix prefix, read in radix r.
ReadIPv4Number(digits, r) ==
  IF \E k \in 1..Len(digits) : ~IsHexDigit(digits[k]) \/ HexVal(digits[k]) >= r
  THEN IPv4Failure
  ELSE ReadRadix(digits, r, IPv4Zero)

\* The IPv4 number parser: [ok, b, over].
ParseIPv4Number(s) ==
  IF s = << >> THEN IPv4Failure
  ELSE Let(IPv4Radix(s),
           LAMBDA r : ReadIPv4Number(IF r = 16 THEN SubSeq(s, 3, Len(s))
                                     ELSE IF r = 8 THEN Tail(s) ELSE s, r))

\* The labels of a domain, a trailing empty label dropped.
IPv4Parts(s) ==
  Let(SplitOn(s, "."),
      LAMBDA parts : IF Len(parts) > 1 /\ parts[Len(parts)] = << >>
                     THEN SubSeq(parts, 1, Len(parts) - 1) ELSE parts)

\* The ends-in-a-number checker.
EndsInNumber(s) ==
  Let(Let(IPv4Parts(s), LAMBDA parts : parts[Len(parts)]),
      LAMBDA last : \/ last # << >> /\ \A k \in 1..Len(last) : IsDigit(last[k])
                    \/ ParseIPv4Number(last).ok)

\* The IPv4 parser and serializer: [ok, v], v the dotted quad.
ParseIPv4(s) ==
  Let(MapSeq(IPv4Parts(s), ParseIPv4Number),
      LAMBDA nums :
        LET n == Len(nums)
        IN  IF \/ n > 4
               \/ \E k \in 1..n : ~nums[k].ok \/ nums[k].over
               \/ \E k \in 1..(n - 1) : \E j \in 2..4 : nums[k].b[j] # 0
               \/ \E j \in (6 - n)..4 : nums[n].b[j] # 0
            THEN [ ok |-> FALSE, v |-> << >> ]
            ELSE [ ok |-> TRUE,
                   v |-> JoinWith(AsTuple([ k \in 1..4 |->
                                    NatToString(IF k < n THEN nums[k].b[1]
                                                ELSE nums[n].b[5 - k]) ]), << "." >>) ])

RECURSIVE HexString(_)
\* A number in lowercase hexadecimal, without leading zeros.
HexString(n) ==
  IF n < 16 THEN << HexDigitsLower[n + 1] >>
  ELSE HexString(n \div 16) \o << HexDigitsLower[(n % 16) + 1] >>

\* The 0-based index of the first "::" of s, or -1.
IndexOfDoubleColon(s) ==
  IF \E k \in 1..(Len(s) - 1) : s[k] = ":" /\ s[k + 1] = ":"
  THEN (CHOOSE k \in 1..(Len(s) - 1) :
          /\ s[k] = ":" /\ s[k + 1] = ":"
          /\ \A j \in 1..(k - 1) : ~(s[j] = ":" /\ s[j + 1] = ":")) - 1
  ELSE -1

\* The value of one group of hex digits.
IPv6Piece(g) == Let(ReadRadix(g, 16, IPv4Zero), LAMBDA n : n.b[1] + 256 * n.b[2])

\* The 16-bit pieces of a colon-separated run of hex groups: [ok, v].
IPv6Groups(s) ==
  Let(IF s = << >> THEN << >> ELSE SplitOn(s, ":"),
      LAMBDA gs :
        IF \A k \in 1..Len(gs) :
             Len(gs[k]) >= 1 /\ Len(gs[k]) <= 4 /\ \A j \in 1..Len(gs[k]) : IsHexDigit(gs[k][j])
        THEN [ ok |-> TRUE, v |-> MapSeq(gs, IPv6Piece) ]
        ELSE [ ok |-> FALSE, v |-> << >> ])

\* The eight pieces of an address from the groups left and right of its "::".
IPv6Join(left, right, compressed) ==
  IF ~left.ok \/ ~right.ok THEN [ ok |-> FALSE, v |-> << >> ]
  ELSE IF ~compressed THEN (IF Len(left.v) = 8 THEN left ELSE [ ok |-> FALSE, v |-> << >> ])
  ELSE IF Len(left.v) + Len(right.v) > 7 THEN [ ok |-> FALSE, v |-> << >> ]
  ELSE [ ok |-> TRUE,
         v |-> left.v \o AsTuple([ k \in 1..(8 - Len(left.v) - Len(right.v)) |-> 0 ])
               \o right.v ]

\* The IPv6 parser on the text between the brackets: [ok, v], v the eight
\* pieces.  An embedded dotted-quad tail (::ffff:1.2.3.4) is not modelled: no
\* input of the model holds one, and it is reported as a failure.
ParseIPv6(s) ==
  Let(IndexOfDoubleColon(s),
      LAMBDA dc : IPv6Join(IPv6Groups(IF dc = -1 THEN s ELSE Substring(s, 0, dc)),
                           IPv6Groups(IF dc = -1 THEN << >> ELSE SubstringFrom(s, dc + 2)),
                           dc # -1))

\* The length of the run of zero pieces that starts at piece k.
ZeroRun(p, k) ==
  IF p[k] # 0 THEN 0
  ELSE CHOOSE n \in 1..(9 - k) :
         /\ \A j \in k..(k + n - 1) : p[j] = 0
         /\ (k + n > 8 \/ p[k + n] # 0)

\* Pieces a to b in hexadecimal, colons between them.
HexPieces(p, a, b) ==
  JoinWith(AsTuple([ k \in 1..(b - a + 1) |-> HexString(p[a + k - 1]) ]), << ":" >>)

\* The IPv6 serializer: the first longest run of two or more zero pieces is
\* written "::".
SerializeIPv6(p) ==
  Let(CHOOSE k \in 1..8 :
        /\ \A j \in 1..8 : ZeroRun(p, j) <= ZeroRun(p, k)
        /\ \A j \in 1..(k - 1) : ZeroRun(p, j) < ZeroRun(p, k),
      LAMBDA best :
        Let(ZeroRun(p, best),
            LAMBDA run : IF run < 2 THEN HexPieces(p, 1, 8)
                         ELSE HexPieces(p, 1, best - 1) \o << ":", ":" >>
                              \o HexPieces(p, best + run, 8)))

\* The forbidden domain code points within printable ASCII.
ForbiddenDomainChars ==
  { " ", "#", "/", ":", "<", ">", "?", "@", "[", "\\", "]", "^", "|", "%" }

\* The host parser on the text of a domain, percent-decoded and lowercased
\* (domain to ASCII, on ASCII input): it is checked for forbidden characters
\* and read as an IPv4 address when its last label is a number.
ParseDomain(domain) ==
  IF domain = << >> \/ \E k \in 1..Len(domain) :
       domain[k] \in ForbiddenDomainChars \/ domain[k] \notin AsciiSet
  THEN [ ok |-> FALSE, v |-> << >> ]
  ELSE IF EndsInNumber(domain) THEN ParseIPv4(domain)
  ELSE [ ok |-> TRUE, v |-> domain ]

\* The host parser for a special scheme: [ok, v], v the serialized host.  A
\* bracketed host is an IPv6 address; any other is a domain.
ParseHost(s) ==
  IF s = << >> THEN [ ok |-> FALSE, v |-> << >> ]
  ELSE IF s[1] # "[" THEN ParseDomain(MapSeq(PercentDecode(s), ToLowerChar))
  ELSE IF s[Len(s)] # "]" THEN [ ok |-> FALSE, v |-> << >> ]
  ELSE Let(ParseIPv6(SubSeq(s, 2, Len(s) - 1)),
           LAMBDA v6 : IF ~v6.ok THEN [ ok |-> FALSE, v |-> << >> ]
                       ELSE [ ok |-> TRUE, v |-> << "[" >> \o SerializeIPv6(v6.v) \o << "]" >> ])

\* ------------------------------------------------------ WHATWG URL parser
\* The percent-encode sets, within printable ASCII.
QueryEncodeSet == { " ", "\"", "#", "<", ">", "'" }
FragmentEncodeSet == { " ", "\"", "<", ">", "\\x96" }
UserinfoEncodeSet ==
  { " ", "\"", "#", "<", ">", "?", "\\x96", "{", "}", "/", ":", ";", "=", "@", "[", "\\", "]", "^", "|" }

RECURSIVE SkipSlashes(_)
SkipSlashes(s) == IF s # << >> /\ s[1] \in { "/", "\\" } THEN SkipSlashes(Tail(s)) ELSE s

RECURSIVE TrimSpaces(_)
\* Leading and trailing spaces are removed from the parser's input.
TrimSpaces(s) ==
  IF s # << >> /\ s[1] = " " THEN TrimSpaces(Tail(s))
  ELSE IF s # << >> /\ s[Len(s)] = " " THEN TrimSpaces(SubSeq(s, 1, Len(s) - 1))
  ELSE s

\* The 1-based index of the first character of s in the set cs, or Len(s) + 1.
FirstOf(s, cs) ==
  IF \E k \in 1..Len(s) : s[k] \in cs
  THEN CHOOSE k \in 1..Len(s) : s[k] \in cs /\ \A j \in 1..(k - 1) : s[j] \notin cs
  ELSE Len(s) + 1

\* Whether the k-th character of s ends the host: a ':' outside brackets
\* ('[' opens them, ']' closes them).
EndsHost(s, k) ==
  /\ s[k] = ":"
  /\ ~\E j \in 1..(k - 1) : s[j] = "[" /\ \A m \in (j + 1)..(k - 1) : s[m] # "]"

\* The 1-based index of the ':' that ends the host, or Len(s) + 1.
HostEnd(s) ==
  IF \E k \in 1..Len(s) : EndsHost(s, k)
  THEN CHOOSE k \in 1..Len(s) : EndsHost(s, k) /\ \A j \in 1..(k - 1) : ~EndsHost(s, j)
  ELSE Len(s) + 1

RECURSIVE PortValue(_, _)
\* The value of a run of digits, capped just above the largest port.
PortValue(s, acc) ==
  IF s = << >> THEN acc
  ELSE PortValue(Tail(s), IF acc * 10 + HexVal(s[1]) > 65535 THEN 65536 ELSE acc * 10 + HexVal(s[1]))

URLFailure ==
  [ ok |-> FALSE, username |-> << >>, hostname |-> << >>, port |-> << >>,
    query |-> << >>, hash |-> << >> ]

\* The username of the credentials before the last '@' of the authority.
URLUsername(cred) ==
  PctEncode(Let(IndexOf(cred, ":"),
                LAMBDA colon : IF colon = -1 THEN cred ELSE Substring(cred, 0, colon)),
            UserinfoEncodeSet)

\* The query of what follows the authority: from the first '?' to the '#'.
URLQuery(tail) ==
  Let(Let(IndexOf(tail, "#"),
          LAMBDA hashAt : IF hashAt = -1 THEN tail ELSE Substring(tail, 0, hashAt)),
      LAMBDA beforeHash :
        Let(IndexOf(beforeHash, "?"),
            LAMBDA queryAt :
              IF queryAt = -1 THEN << >>
              ELSE PctEncode(SubstringFrom(beforeHash, queryAt + 1), QueryEncodeSet)))

\* The hash of what follows the authority: '#' and the fragment, or "" for
\* no fragment and for an empty one.
URLHash(tail) ==
  Let(IndexOf(tail, "#"),
      LAMBDA hashAt :
        IF hashAt = -1 \/ hashAt + 1 = Len(tail) THEN << >>
        ELSE << "#" >> \o PctEncode(SubstringFrom(tail, hashAt + 1), FragmentEncodeSet))

\* The URL record of the parsed parts: [ok, username, hostname, port, query,
\* hash].  port is "" for no port and for the scheme's default port, 80.
URLRecord(cred, host, portText, tail) ==
  IF \/ ~host.ok
     \/ \E k \in 1..Len(portText) : ~IsDigit(portText[k])
  THEN URLFailure
  ELSE Let(PortValue(portText, 0),
           LAMBDA portNum :
             IF portNum > 65535 THEN URLFailure
             ELSE [ ok |-> TRUE,
                    username |-> URLUsername(cred),
                    hostname |-> host.v,
                    port |-> IF portText = << >> \/ portNum = 80 THEN << >>
                             ELSE NatToString(portNum),
                    query |-> URLQuery(tail),
                    hash |-> URLHash(tail) ])

\* The URL of an authority and of what follows it: the credentials end at the
\* last '@', the host at the first ':' outside brackets.
URLOfAuthority(auth, tail) ==
  Let(LastIndexOf(auth, "@"),
      LAMBDA at :
        Let(SubstringFrom(auth, at + 1),
            LAMBDA hostport :
              Let(HostEnd(hostport),
                  LAMBDA hostEnd :
                    URLRecord(IF at = -1 THEN << >> ELSE Substring(auth, 0, at),
                              ParseHost(SubSeq(hostport, 1, hostEnd - 1)),
                              SubSeq(hostport, hostEnd + 1, Len(hostport)),
                              tail))))

\* new URL(input) for an input of scheme http: the record of URLRecord, ok =
\* FALSE when the constructor throws TypeError.  The authority follows the
\* slashes after the scheme and ends at the first '/', '\', '?' or '#'.
URLParse(input) ==
  Let(TrimSpaces(input),
      LAMBDA s :
        IF ~StartsWith(s, S("http:")) THEN URLFailure
        ELSE Let(SkipSlashes(SubSeq(s, 6, Len(s))),
                 LAMBDA rest :
                   Let(FirstOf(rest, { "/", "\\", "?", "#" }),
                       LAMBDA authEnd :
                         URLOfAuthority(SubSeq(rest, 1, authEnd - 1),
                                        SubSeq(rest, authEnd, Len(rest))))))

\* The application/x-www-form-urlencoded decoding of one name or value.
FormDecode(s) == PercentDecode(MapSeq(s, LAMBDA c : IF c = "+" THEN " " ELSE c))

\* One name-value pair of a query: the name ends at the first '='.
SearchParam(q) ==
  Let(IndexOf(q, "="),
      LAMBDA eq : [ name |-> FormDecode(IF eq = -1 THEN q ELSE Substring(q, 0, eq)),
                    value |-> FormDecode(IF eq = -1 THEN << >> ELSE SubstringFrom(q, eq + 1)) ])

\* The name-value pairs of a query, in order of appearance.
SearchParams(query) ==
  MapSeq(SelectSeq(SplitOn(query, "&"), LAMBDA q : q # << >>), SearchParam)

\* searchParams.get(name): the value of the first pair of that name, or null.
SearchParamsGet(query, n) ==
  Let(SearchParams(query),
      LAMBDA ps :
        IF \E k \in 1..Len(ps) : ps[k].name = n
        THEN [ found |-> TRUE,
               v |-> ps[CHOOSE k \in 1..Len(ps) :
                          ps[k].name = n /\ \A j \in 1..(k - 1) : ps[j].name # n].value ]
        ELSE [ found |-> FALSE, v |-> << >> ])

\* --------------------------------------------------------------- errors
\* A thrown error: its name, its message (a fixed text and the value the
\* message interpolates) and, for an error that wraps another, the wrapped one.
Error(name, text, arg) == [ name |-> name, text |-> text, arg |-> arg, cause |-> << >> ]
NoError == Error("", "", << >>)

InvalidConfigField(name, value) == Error("InvalidConfigField", "Invalid " \o name \o ": ", value)
InvalidURI(text, arg) == Error("InvalidURI", text, arg)
\* What the libraries throw: new URL, decodeURIComponent, base64 decode.
UrlTypeError(input) == Error("TypeError", "Invalid URL: ", input)
UriMalformed == Error("URIError", "URI malformed", << >>)
\* The decoding failure had the code caught it and thrown its own InvalidURI.
InvalidCharacterAsInvalidURI == Error("InvalidURI", "Invalid base64: ", << >>)

InvalidCharacterError ==
  Error("InvalidCharacterError",
        "Invalid character: the string to be decoded is not correctly encoded.", << >>)

\* throwErrorForInvalidField(name, value)
throwErrorForInvalidField(name, value) ==
  [ ok |-> FALSE, v |-> << >>, err |-> InvalidConfigField(name, Interpolate(value)) ]

Accept(data) == [ ok |-> TRUE, v |-> data, err |-> NoError ]

\* --------------------------------------------------------- config fields
\* Each constructor: [ok, v, err], v the field's data when it does not throw.
HttpPrefix == S("http://")

\* new Host(host)
Host(host) ==
  Let(URLParse(HttpPrefix \o Interpolate(host) \o << "/" >>),
      LAMBDA urlParserResult :
        IF urlParserResult.ok THEN Accept(urlParserResult.hostname)
        ELSE throwErrorForInvalidField("host", host))

\* new Port(port)
Port(port) ==
  IF IsStr(port) /\ port.v = << >> THEN throwErrorForInvalidField("port", port)
  ELSE Let(URLParse(HttpPrefix \o S("0.0.0.0:") \o Interpolate(port) \o << "/" >>),
           LAMBDA urlParserResult :
             IF urlParserResult.ok THEN Accept(urlParserResult.port)
             ELSE throwErrorForInvalidField("port", port))

METHODS ==
  { S("rc4-md5"),
    S("aes-128-gcm"),
    S("aes-192-gcm"),
    S("aes-256-gcm"),
    S("aes-128-cfb"),
    S("aes-192-cfb"),
    S("aes-256-cfb"),
    S("aes-128-ctr"),
    S("aes-192-ctr"),
    S("aes-256-ctr"),
    S("camellia-128-cfb"),
    S("camellia-192-cfb"),
    S("camellia-256-cfb"),
    S("bf-cfb"),
    S("chacha20-ietf-poly1305"),
    S("salsa20"),
    S("chacha20"),
    S("chacha20-ietf") }

\* new Method(method)
Method(method) ==
  IF IsStr(method) /\ method.v \in METHODS THEN Accept(method.v)
  ELSE throwErrorForInvalidField("method", method)

\* x || '' for a string or undefined x.
OrEmpty(x) == IF IsStr(x) THEN x.v ELSE << >>

\* new Password(password)
Password(password) == Accept(OrEmpty(password))

\* new Tag(tag)
Tag(tag) == Accept(OrEmpty(tag))

\* new Plugin(plugin)
Plugin(plugin) == Accept(OrEmpty(plugin))

\* The constructor of a field type, by the type's name.
Validate(kind, raw) ==
  CASE kind = "Host" -> Host(raw)
    [] kind = "Port" -> Port(raw)
    [] kind = "Method" -> Method(raw)
    [] kind = "Password" -> Password(raw)
    [] kind = "Tag" -> Tag(raw)
    [] kind = "Plugin" -> Plugin(raw)

\* ----------------------------------------------------------------- Config
\* An object of class Config or of one of the URI classes: its class, the
\* data of its five private fields and, for the URI classes, what their
\* constructors add (b64EncodedData or b64EncodedUserInfo, and plugin_).
NoObject ==
  [ type |-> "none", host |-> << >>, port |-> << >>, method |-> << >>,
    password |-> << >>, tag |-> << >>, b64 |-> << >>, plugin |-> << >> ]

\* An UnsafeConfig: the plain record client code passes to a constructor.
UnsafeConfig(host, port, method, password, tag, plugin) ==
  [ host |-> host, port |-> port, method |-> method, password |-> password,
    tag |-> tag, plugin |-> plugin ]

\* An object read as an UnsafeConfig, through its getters.
AsUnsafeConfig(o) ==
  UnsafeConfig(Str(o.host), Str(o.port), Str(o.method), Str(o.password), Str(o.tag),
               IF o.type = "Sip002URI" THEN Str(o.plugin) ELSE Undefined)

Thrown(err, steps) == [ ok |-> FALSE, v |-> NoObject, err |-> err, steps |-> steps ]
Returned(o, steps) == [ ok |-> TRUE, v |-> o, err |-> NoError, steps |-> steps ]

\* new Config(config): the five setters in the constructor's order; the first
\* one that throws ends the construction.  steps lists the fields validated.
NewConfig(config) ==
  Let(Host(config.host),
      LAMBDA h :
        IF ~h.ok THEN Thrown(h.err, << "host" >>)
        ELSE Let(Port(config.port),
                 LAMBDA p :
                   IF ~p.ok THEN Thrown(p.err, << "host", "port" >>)
                   ELSE Let(Method(config.method),
                            LAMBDA m :
                              IF ~m.ok THEN Thrown(m.err, << "host", "port", "method" >>)
                              ELSE Returned([ NoObject EXCEPT
                                                !.type = "Config", !.host = h.v, !.port = p.v,
                                                !.method = m.v,
                                                !.password = Password(config.password).v,
                                                !.tag = Tag(config.tag).v ],
                                            << "host", "port", "method", "password", "tag" >>))))

RECURSIVE NewConfigs(_, _)
\* new Config(new Config(... config)), depth constructors deep: what a chain
\* of super(new Config(config)) calls runs.  The first constructor that throws
\* ends the chain.
NewConfigs(config, depth) ==
  Let(NewConfig(config),
      LAMBDA inner :
        IF depth = 1 \/ ~inner.ok THEN inner
        ELSE NewConfigs(AsUnsafeConfig(inner.v), depth - 1))

\* The constructor of ShadowsocksURI: super(new Config(config)).
NewShadowsocksURI(config) == NewConfigs(config, 2)

\* ShadowsocksURI.validateProtocol(uri): TRUE when it does not throw.
SsPrefix == S("ss://")
validateProtocol(uri) == StartsWith(uri, SsPrefix)

\* ShadowsocksURI.getHash(config)
getHash(config) ==
  IF config.tag # << >> THEN << "#" >> \o encodeURIComponent(config.tag) ELSE << >>

\* ------------------------------------------------------- LegacyBase64URI
\* The constructor without its padding loop: the base64 text as encoded.
KeepPadding(s) == s

RECURSIVE StripPadding(_)
\* The base64 text without its trailing '=' characters.
StripPadding(s) ==
  IF s # << >> /\ s[Len(s)] = "=" THEN StripPadding(SubSeq(s, 1, Len(s) - 1)) ELSE s

\* new LegacyBase64URI(config): super(new Config(config)) into the constructor
\* of ShadowsocksURI, then the base64 of method:password@host:port, its
\* padding removed.
NewLegacyBase64URI(config) ==
  Let(NewConfigs(config, 3),
      LAMBDA base :
        IF ~base.ok THEN base
        ELSE Returned([ base.v EXCEPT
                          !.type = "LegacyBase64URI",
                          !.b64 = StripPadding(b64Encode(
                                    base.v.method \o << ":" >> \o base.v.password
                                    \o << "@" >> \o base.v.host \o << ":" >> \o base.v.port)) ],
                      base.steps))

\* LegacyBase64URI.prototype.toString()
LegacyToString(o) == SsPrefix \o o.b64 \o getHash(o)

\* LegacyBase64URI.parse with its three separator checks moved before the
\* constructors.
LegacyParseStagesSeparatorsFirst ==
  << "validateProtocol", "Tag", "b64Decode", "find @", "find : in method:password",
     "find : in host:port", "Method", "Password", "Host", "Port", "LegacyBase64URI" >>

\* What LegacyBase64URI.parse does, in the order of its statements.
LegacyParseStages ==
  << "validateProtocol", "Tag", "b64Decode", "find @", "find : in method:password",
     "Method", "Password", "find : in host:port", "Host", "Port", "LegacyBase64URI" >>

\* The values LegacyBase64URI.parse computes from the two halves of the
\* decoded data, under the names of its local constants.
LegacyParseHalves(tagText, decoded, atSignIndex, methodAndPassword, hostAndPort) ==
  Let(IndexOf(methodAndPassword, ":"),
      LAMBDA methodEndIndex :
        Let(IndexOf(hostAndPort, ":"),
            LAMBDA hostEndIndex :
              [ tagText |-> tagText,
                tag |-> Tag(Str(tagText.v)),
                decoded |-> decoded,
                b64DecodedData |-> decoded.v,
                atSignIndex |-> atSignIndex,
                methodAndPassword |-> methodAndPassword,
                methodEndIndex |-> methodEndIndex,
                method |-> Method(Str(Substring(methodAndPassword, 0, methodEndIndex))),
                password |-> Password(Str(SubstringFrom(methodAndPassword, methodEndIndex + 1))),
                hostAndPort |-> hostAndPort,
                hostEndIndex |-> hostEndIndex,
                host |-> Host(Str(Substring(hostAndPort, 0, hostEndIndex))),
                port |-> Port(Str(SubstringFrom(hostAndPort, hostEndIndex + 1))) ]))

\* The same from the decoded tag and the decoded data, split at the first '@'.
LegacyParseDecoded(tagText, decoded) ==
  Let(IndexOf(decoded.v, "@"),
      LAMBDA atSignIndex :
        LegacyParseHalves(tagText, decoded, atSignIndex,
                          Substring(decoded.v, 0, atSignIndex),
                          SubstringFrom(decoded.v, atSignIndex + 1)))

\* The values LegacyBase64URI.parse computes from uri: the tag follows the
\* first '#', the base64 data lies between "ss://" and it.
LegacyParseLocals(uri) ==
  Let(IndexOf(uri, "#"),
      LAMBDA hashIndex :
        LegacyParseDecoded(
          decodeURIComponent(SubstringFrom(uri, IF hashIndex = -1 THEN Len(uri)
                                                ELSE hashIndex + 1)),
          b64Decode(Substring(uri, Len(SsPrefix), IF hashIndex = -1 THEN Len(uri)
                                                  ELSE hashIndex))))

\* The object LegacyBase64URI.parse returns from its locals.
LegacyParseMade(l) ==
  NewLegacyBase64URI(UnsafeConfig(Str(l.host.v), Str(l.port.v), Str(l.method.v),
                                  Str(l.password.v), Str(l.tag.v), Undefined))

\* The error one statement of LegacyBase64URI.parse throws, NoError when it
\* throws none; l are the locals and r what the final constructor gives.
LegacyParseThrows(uri, l, r, stage) ==
  CASE stage = "validateProtocol" ->
         IF validateProtocol(uri) THEN NoError
         ELSE InvalidURI("URI must start with \"ss://\": ", uri)
    [] stage = "Tag" -> IF l.tagText.ok THEN NoError ELSE UriMalformed
    [] stage = "b64Decode" -> IF l.decoded.ok THEN NoError ELSE InvalidCharacterError
    [] stage = "find @" ->
         IF l.atSignIndex # -1 THEN NoError
         ELSE InvalidURI("Missing \"@\": ", l.b64DecodedData)
    [] stage = "find : in method:password" ->
         IF l.methodEndIndex # -1 THEN NoError
         ELSE InvalidURI("Missing password part: ", l.methodAndPassword)
    [] stage = "Method" -> l.method.err
    [] stage = "Password" -> l.password.err
    [] stage = "find : in host:port" ->
         IF l.hostEndIndex # -1 THEN NoError
         ELSE InvalidURI("Missing port part: ", l.hostAndPort)
    [] stage = "Host" -> l.host.err
    [] stage = "Port" -> l.port.err
    [] stage = "LegacyBase64URI" -> r.err

RECURSIVE LegacyParseFrom(_, _, _, _)
\* The statements of LegacyBase64URI.parse from the k-th on: the first that
\* throws ends the call.
LegacyParseFrom(uri, l, r, k) ==
  IF k > Len(LegacyParseStages) THEN Returned(r.v, LegacyParseStages)
  ELSE Let(LegacyParseThrows(uri, l, r, LegacyParseStages[k]),
           LAMBDA e : IF e # NoError THEN Thrown(e, SubSeq(LegacyParseStages, 1, k))
                      ELSE LegacyParseFrom(uri, l, r, k + 1))

\* LegacyBase64URI.parse(uri): [ok, v, err, steps].  The statements run in
\* order; steps lists what ran.
LegacyParse(uri) ==
  Let(LegacyParseLocals(uri), LAMBDA l : LegacyParseFrom(uri, l, LegacyParseMade(l), 1))

\* ------------------------------------------------------------- Sip002URI
\* new Sip002URI(config): super(new Config(config)) into the constructor of
\* ShadowsocksURI, the base64 of method:password with its padding, and the
\* plugin setter.
NewSip002URI(config) ==
  Let(NewConfigs(config, 3),
      LAMBDA base :
        IF ~base.ok THEN base
        ELSE Returned([ base.v EXCEPT
                          !.type = "Sip002URI",
                          !.b64 = b64Encode(base.v.method \o << ":" >> \o base.v.password),
                          !.plugin = Plugin(config.plugin).v ],
                      base.steps))

\* Sip002URI.prototype.toString()
Sip002ToString(o) ==
  SsPrefix \o o.b64 \o << "@" >> \o o.host \o << ":" >> \o o.port \o << "/" >>
  \o (IF o.plugin # << >> THEN S("?plugin=") \o o.plugin ELSE << >>) \o getHash(o)

RECURSIVE ReplacePct3D(_)
\* username.replace(/%3D/g, '=')
ReplacePct3D(s) ==
  IF s = << >> THEN << >>
  ELSE IF StartsWith(s, S("%3D")) THEN << "=" >> \o ReplacePct3D(SubSeq(s, 4, Len(s)))
  ELSE << s[1] >> \o ReplacePct3D(Tail(s))

PluginName == S("plugin")

\* What Sip002URI.parse does, in the order of its statements.
Sip002ParseStages ==
  << "validateProtocol", "URL", "Host", "Port", "Tag", "b64Decode",
     "find : in method:password", "Method", "Password", "Plugin", "Sip002URI" >>

\* The statements of Sip002URI.parse up to the one named last.
Sip002Ran(last) ==
  SubSeq(Sip002ParseStages, 1,
         CHOOSE k \in 1..Len(Sip002ParseStages) : Sip002ParseStages[k] = last)

\* The plugin Sip002URI.parse passes on: a Plugin when the query has a
\* non-empty `plugin`, else undefined.
Sip002Plugin(query) ==
  Let(SearchParamsGet(query, PluginName),
      LAMBDA pluginString :
        IF pluginString.found /\ pluginString.v # << >>
        THEN Str(Plugin(Str(pluginString.v)).v) ELSE Undefined)

\* Sip002URI.parse from the decoded user info on: its split at the first
\* ':', Method, Password, the plugin and the constructor.
Sip002ParseUserInfo(urlParserResult, host, port, tagText, b64DecodedUserInfo) ==
  Let(IndexOf(b64DecodedUserInfo, ":"),
      LAMBDA colonIdx :
        IF colonIdx = -1
        THEN Thrown(InvalidURI("Missing password part: ", b64DecodedUserInfo),
                    Sip002Ran("find : in method:password"))
        ELSE Let(Method(Str(Substring(b64DecodedUserInfo, 0, colonIdx))),
                 LAMBDA method :
                   IF ~method.ok THEN Thrown(method.err, Sip002Ran("Method"))
                   ELSE Let(NewSip002URI(UnsafeConfig(
                              Str(host.v), Str(port.v), Str(method.v),
                              Str(Password(Str(SubstringFrom(b64DecodedUserInfo,
                                                             colonIdx + 1))).v),
                              Str(Tag(Str(tagText.v)).v),
                              Sip002Plugin(urlParserResult.query))),
                            LAMBDA r :
                              IF ~r.ok THEN Thrown(r.err, Sip002ParseStages)
                              ELSE Returned(r.v, Sip002ParseStages))))

\* Sip002URI.parse from the URL parser's result on: Host, Port, the tag and
\* the base64 decoding of the user info.
Sip002ParseUrl(urlParserResult) ==
  Let(Host(Str(urlParserResult.hostname)),
      LAMBDA host :
        IF ~host.ok THEN Thrown(host.err, Sip002Ran("Host"))
        ELSE Let(Port(Str(urlParserResult.port)),
                 LAMBDA port :
                   IF ~port.ok THEN Thrown(port.err, Sip002Ran("Port"))
                   ELSE Let(decodeURIComponent(SubstringFrom(urlParserResult.hash, 1)),
                            LAMBDA tagText :
                              IF ~tagText.ok THEN Thrown(UriMalformed, Sip002Ran("Tag"))
                              ELSE Let(b64Decode(ReplacePct3D(urlParserResult.username)),
                                       LAMBDA decoded :
                                         IF ~decoded.ok
                                         THEN Thrown(InvalidCharacterError,
                                                     Sip002Ran("b64Decode"))
                                         ELSE Sip002ParseUserInfo(urlParserResult, host, port,
                                                                  tagText, decoded.v)))))

\* Sip002URI.parse(uri): [ok, v, err, steps].
Sip002Parse(uri) ==
  IF ~validateProtocol(uri)
  THEN Thrown(InvalidURI("URI must start with \"ss://\": ", uri), Sip002Ran("validateProtocol"))
  ELSE Let(S("http") \o SubstringFrom(uri, 2),
           LAMBDA inputForUrlParser :
             Let(URLParse(inputForUrlParser),
                 LAMBDA urlParserResult :
                   IF ~urlParserResult.ok
                   THEN Thrown(UrlTypeError(inputForUrlParser), Sip002Ran("URL"))
                   ELSE Sip002ParseUrl(urlParserResult)))

\* ------------------------------------------------ ShadowsocksURI.parse
\* The loop with the two classes exchanged.
UriTypesSip002First == << "Sip002URI", "LegacyBase64URI" >>

\* The classes whose parse the dispatcher tries, in the order of its loop.
UriTypes == << "LegacyBase64URI", "Sip002URI" >>

\* UriType.parse(uri) for one class.
ParseWith(type, uri) ==
  IF type = "LegacyBase64URI" THEN LegacyParse(uri) ELSE Sip002Parse(uri)

\* The catch clause written error = e: the last failure replaces the others.
RecordErrorLastWins(error, e) == e

\* The catch clause of the dispatcher's loop: error = error || e.
RecordError(error, e) == IF error # NoError THEN error ELSE e

\* The error the dispatcher throws once every class has failed: the first
\* recorded one when it is an InvalidURI, else a new InvalidURI around it.
DispatchError(uri, error) ==
  IF error.name # "InvalidURI"
  THEN [ InvalidURI("Invalid input: ${uri} - Original error: ${name}: ${message}", uri)
           EXCEPT !.cause =
             << [ name |-> IF error.name = "" THEN "(Unnamed Error)" ELSE error.name,
                  text |-> IF error.text = "" /\ error.arg = << >>
                           THEN "(no error message provided)" ELSE error.text,
                  arg |-> error.arg ] >> ]
  ELSE error

\* ---------------------------------------------------------------- inputs
\* The values client code passes to the setters.  Hosts: a hostname, an
\* unbracketed IPv6 literal, a missing one.
HostInputs == { Str(S("example.com")), Str(S("2001:db8::1")), Undefined }

PortInputs == { Str(S("01234")), Num(80), Str(S("foo")) }

MethodInputs == { Str(S("rc4-md5")), Str(S("foo")), Undefined }

PasswordInputs == { Str(S("p@ss")), Undefined }

TagInputs == { Str(S("a#b")), Undefined }

PluginInputs ==
  { Str(S("obfs-local;obfs=http")), Str(S("a&b")), Str(S("a#b")), Str(S("a b")), Undefined }

\* The port texts drawn as inputs of Port: every text of at most MaxPortLen of
\* these characters.
PortChars == { "0", "8", "1", "-", ".", "x", "/" }

RECURSIVE TextsUpTo(_, _)
TextsUpTo(chars, n) ==
  IF n = 0 THEN { << >> }
  ELSE LET shorter == TextsUpTo(chars, n - 1)
       IN  shorter \cup { << c >> \o t : c \in chars, t \in shorter }

PortTexts == TextsUpTo(PortChars, MaxPortLen)

\* The inputs of each field type's constructor.
FieldInputs(kind) ==
  CASE kind = "Host" ->
         HostInputs \cup { Str(S("192.168.100.1")), Str(S("[2001:db8::1]")), Str(S("")),
                           Str(S("127.0.0.1")), Str(S("Example.COM")), Str(S("ss@host")),
                           Str(S("1")), Str(S("[0:0:0:0:0:0:0:1]")), Str(S("-pwned")),
                           Str(S(";echo pwned")) }
    [] kind = "Port" ->
         PortInputs \cup { Str(t) : t \in PortTexts }
           \cup { Str(S("8888")), Num(8888), Num(65536), Undefined,
                  Num(0), Num(443), Num(8388), Num(65535), Num(-123), Frac(123, 4),
                  Str(S("65535")), Str(S("65536")), Str(S("0080")), Str(S("123.4")),
                  Str(S("-123")) }
    [] kind = "Method" ->
         MethodInputs \cup { Str(S("")) } \cup { Str(m) : m \in METHODS }
    [] kind = "Password" ->
         PasswordInputs \cup { Str(S("test")), Str(S("a:b")), Str(S("?")), Str(S("")) }
    [] kind = "Tag" -> TagInputs \cup { Str(S("Foo Bar")), Str(S("")) }
    [] kind = "Plugin" -> PluginInputs

FieldKinds == { "Host", "Port", "Method", "Password", "Tag", "Plugin" }

NoConfig == UnsafeConfig(Undefined, Undefined, Undefined, Undefined, Undefined, Undefined)

\* The records client code passes to new Config.
ConfigInputs ==
  { UnsafeConfig(h, p, m, wt[1], wt[2], Undefined) :
      h \in { Str(S("192.168.100.1")), Str(S("")), Undefined },
      p \in { Str(S("8888")), Num(80), Str(S("foo")), Undefined },
      m \in { Str(S("aes-128-gcm")), Str(S("foo")), Undefined },
      wt \in { << Str(S("test")), Str(S("Foo Bar")) >>, << Undefined, Undefined >> } }

\* The records client code passes to new LegacyBase64URI and new Sip002URI.
CodecConfigs ==
  { UnsafeConfig(h, p, m, w, t, g) :
      h \in { Str(S("192.168.100.1")), Str(S("[2001:db8::1]")) },
      p \in { Str(S("8888")), Num(80) },
      m \in { Str(S("aes-128-gcm")), Str(S("rc4-md5")) },
      w \in { Str(S("test")), Str(S("p@ss")), Str(S("?")) },
      t \in { Str(S("Foo Bar")), Undefined },
      g \in { Str(S("obfs-local;obfs=http")), Str(S("a#b")), Undefined } }

\* The legacy URI whose base64 part decodes to payload.
LegacyUriOf(payload, hash) == SsPrefix \o StripPadding(b64Encode(payload)) \o hash

\* The texts a legacy URI's base64 part decodes to: with and without each of
\* the three separators, with a valid and an invalid method, host and port.
LegacyPayloads ==
  { S("bf-cfb:test@192.168.100.1:8888"), S("aes-128-gcm:pw@hostonly"),
    S("foo:pw@hostonly"), S("foo:pw@host:8888"), S("aes-128-gcm@host:8888"),
    S("foo@host:8888"), S("foo@hostonly"), S("aes-128-gcm:pwhost:8888"), S("foo:pwhost"),
    S("foo"), S(""), S("aes-128-gcm:pw@a b:8888"), S("aes-128-gcm:pw@host:x"),
    S("aes-128-gcm:pw@a b"), S("aes-128-gcm:pw@host:80"), S("rc4-md5:p@ss@host:8888"),
    S("bf-cfb:test@[2001:db8::1]:8888"), S("aes-128-gcm:@host:1"), S(":pw@host:8888") }

\* The texts client code passes to the parsers.
UriInputs ==
  { LegacyUriOf(p, h) : p \in LegacyPayloads, h \in { << >>, S("#Foo%20Bar") } }
  \cup
  { S(""), S("not a URI"), S("ss://not-base64"), S("ss://"), S("http://example.com/"),
    S("ss://YWVzLTEyOC1nY206dGVzdA==@192.168.100.1:8888#Foo%20Bar"),
    S("ss://YWVzLTEyOC1nY206dGVzdA==@192.168.100.1:8888/#Foo%20Bar"),
    S("ss://YWVzLTEyOC1nY206dGVzdA==@[2001:db8::1]:8888"),
    S("ss://cmM0LW1kNTpwYXNzd2Q=@192.168.100.1:8888/?foo=1"),
    S("ss://cmM0LW1kNTpwYXNzd2Q=@192.168.100.1:8888/?plugin=obfs-local%3Bobfs%3Dhttp"),
    S("ss://cmM0LW1kNTpwYXNzd2Q=@192.168.100.1:8888/?plugin=a&plugin=b"),
    S("ss://cmM0LW1kNTpwYXNzd2Q=@192.168.100.1:80/"),
    S("ss://cmM0LW1kNTpwYXNzd2Q=@192.168.100.1/"),
    S("ss://cmM0LW1kNTpwYXNzd2Q@192.168.100.1:8888"),
    S("ss://Zm9vOnB3@192.168.100.1:8888"),
    S("ss://Zm9v@192.168.100.1:8888"),
    S("ss://YWVzLTEyOC1nY206dGVzdA==@192.168.100.1:8888#%"),
    S("ss://YmYtY2ZiOnRlc3RAMTkyLjE2OC4xMDAuMTo4ODg4#%"),
    S("ss://YmYtY2ZiOnRlc3RAMTkyLjE2OC4xMDAuMTo4ODg4=="),
    S("ss://a"), S("ss://@host:1"), S("ss://!@host:1") }

\* ------------------------------------------------------------------ state
VARIABLES
  field,      \* the last field validation: [kind, raw, res, again]
  obj,        \* the Config (or URI) object client code holds, NoObject before
  calls,      \* the setter calls made on obj
  op,         \* the last operation on obj: [name, arg, config, before]
  thrown,     \* what the last operation on obj threw, NoError if it returned
  made,       \* the URI object built to serialize: [ok, v, err, steps]
  text,       \* the URI text made.v serialized to, or the text given to a parser
  parsed,     \* the result of a URI class's own parse of text
  uri,        \* the dispatcher's input
  pc,         \* the dispatcher's position: idle, loop, returned, thrown
  i,          \* the dispatcher's loop index, from 1
  error,      \* the dispatcher's local `error`, NoError while unset
  ret,        \* what the dispatcher returned, or threw
  attempted   \* the classes whose parse the dispatcher has called, in order

vars ==
  << field, obj, calls, op, thrown, made, text, parsed, uri, pc, i, error, ret, attempted >>

fieldVars == << field >>
objVars == << obj, calls, op, thrown >>
codecVars == << made, text, parsed >>
dispatchVars == << uri, pc, i, error, ret, attempted >>

NoField == [ kind |-> "none", raw |-> Undefined, res |-> Accept(<< >>), again |-> << >> ]
NoOp == [ name |-> "none", arg |-> Undefined, config |-> NoConfig, before |-> NoObject ]
NoResult == [ ok |-> FALSE, v |-> NoObject, err |-> NoError, steps |-> << >> ]

Init ==
  /\ field = NoField
  /\ obj = NoObject
  /\ calls = 0
  /\ op = NoOp
  /\ thrown = NoError
  /\ made = NoResult
  /\ text = << >>
  /\ parsed = NoResult
  /\ uri = << >>
  /\ pc = "idle"
  /\ i = 1
  /\ error = NoError
  /\ ret = NoResult
  /\ attempted = << >>

\* ------------------------------------------------------ field validation
\* Client code constructs a field from a raw value.
ValidateField(kind, raw) ==
  /\ field.kind = "none"
  /\ field' = [ kind |-> kind, raw |-> raw, res |-> Validate(kind, raw), again |-> << >> ]
  /\ UNCHANGED << objVars, codecVars, dispatchVars >>

\* Client code constructs the same field type from the data of the last one.
RevalidateField ==
  /\ field.kind # "none"
  /\ field.res.ok
  /\ field.again = << >>
  /\ field' = [ field EXCEPT !.again = << Validate(field.kind, Str(field.res.v)) >> ]
  /\ UNCHANGED << objVars, codecVars, dispatchVars >>

NextField ==
  \/ \E kind \in FieldKinds : \E raw \in FieldInputs(kind) : ValidateField(kind, raw)
  \/ RevalidateField

SpecField == Init /\ [][NextField]_vars

\* ----------------------------------------------------------------- Config
\* new Config(config).  A constructor that throws leaves client code with no
\* object.
MakeConfig(config) ==
  /\ op.name = "none"
  /\ Let(NewConfig(config), LAMBDA r : obj' = r.v /\ thrown' = r.err)
  /\ op' = [ NoOp EXCEPT !.name = "new Config", !.config = config ]
  /\ calls' = 0
  /\ UNCHANGED << fieldVars, codecVars, dispatchVars >>

\* The setter had it stored the field before the constructor's check: a
\* rejected value leaves the field without data.
SetFieldStoresFirst(name, value, r) ==
  /\ obj.type = "Config"
  /\ calls < MaxCalls
  /\ obj' = [ obj EXCEPT ![name] = r.v ]
  /\ thrown' = r.err
  /\ op' = [ NoOp EXCEPT !.name = name, !.arg = value, !.before = obj ]
  /\ calls' = calls + 1
  /\ UNCHANGED << fieldVars, codecVars, dispatchVars >>

\* obj.<name> = value, r being what the field's constructor gives for value:
\* when it does not throw, the setter replaces the held field.
SetField(name, value, r) ==
  /\ obj.type = "Config"
  /\ calls < MaxCalls
  /\ obj' = IF r.ok THEN [ obj EXCEPT ![name] = r.v ] ELSE obj
  /\ thrown' = r.err
  /\ op' = [ NoOp EXCEPT !.name = name, !.arg = value, !.before = obj ]
  /\ calls' = calls + 1
  /\ UNCHANGED << fieldVars, codecVars, dispatchVars >>

SetHost(value) == SetField("host", value, Host(value))
SetPort(value) == SetField("port", value, Port(value))
SetMethod(value) == SetField("method", value, Method(value))
SetPassword(value) == SetField("password", value, Password(value))
SetTag(value) == SetField("tag", value, Tag(value))

NextConfig ==
  \/ \E config \in ConfigInputs : MakeConfig(config)
  \/ \E value \in HostInputs : SetHost(value)
  \/ \E value \in PortInputs : SetPort(value)
  \/ \E value \in MethodInputs : SetMethod(value)
  \/ \E value \in PasswordInputs : SetPassword(value)
  \/ \E value \in TagInputs : SetTag(value)

SpecConfig == Init /\ [][NextConfig]_vars

\* ----------------------------------------------------------------- codecs
\* What new UriType(config) gives, by the class's name.
NewUri(type, config) ==
  IF type = "LegacyBase64URI" THEN NewLegacyBase64URI(config) ELSE NewSip002URI(config)

\* o.toString() for an object of a URI class.
UriToString(o) ==
  IF o.type = "LegacyBase64URI" THEN LegacyToString(o) ELSE Sip002ToString(o)

\* new LegacyBase64URI(config).toString(), or the same of Sip002URI.
Stringify(type, config) ==
  /\ op.name = "none"
  /\ Let(NewUri(type, config),
         LAMBDA r : /\ made' = r
                    /\ text' = IF r.ok THEN UriToString(r.v) ELSE << >>)
  /\ op' = [ NoOp EXCEPT !.name = type, !.config = config ]
  /\ UNCHANGED << fieldVars, obj, calls, thrown, parsed, dispatchVars >>

\* The class's own parse of the text the object serialized to.
ParseBack ==
  /\ made.ok
  /\ parsed.steps = << >>
  /\ parsed' = ParseWith(made.v.type, text)
  /\ UNCHANGED << fieldVars, objVars, made, text, dispatchVars >>

\* LegacyBase64URI.parse(u) or Sip002URI.parse(u) on a text of client code.
ParseText(type, u) ==
  /\ op.name = "none"
  /\ text' = u
  /\ parsed' = ParseWith(type, u)
  /\ op' = [ NoOp EXCEPT !.name = type \o ".parse" ]
  /\ UNCHANGED << fieldVars, obj, calls, thrown, made, dispatchVars >>

NextCodec ==
  \/ \E type \in { UriTypes[k] : k \in 1..Len(UriTypes) } :
       \E config \in CodecConfigs : Stringify(type, config)
  \/ ParseBack
  \/ \E type \in { UriTypes[k] : k \in 1..Len(UriTypes) } :
       \E u \in UriInputs : ParseText(type, u)

SpecCodec == Init /\ [][NextCodec]_vars

\* ------------------------------------------------- ShadowsocksURI.parse
\* Client code calls ShadowsocksURI.parse(u): `error` is declared, the loop
\* starts.
ParseStart(u) ==
  /\ pc = "idle"
  /\ uri' = u
  /\ pc' = "loop"
  /\ i' = 1
  /\ error' = NoError
  /\ UNCHANGED << fieldVars, objVars, codecVars, ret, attempted >>

\* One turn of the loop: the next class's parse; its result is returned, or
\* what it throws is caught and recorded.
ParseTry ==
  /\ pc = "loop"
  /\ i <= Len(UriTypes)
  /\ attempted' = Append(attempted, UriTypes[i])
  /\ Let(ParseWith(UriTypes[i], uri),
         LAMBDA r : IF r.ok
                    THEN /\ ret' = r
                         /\ pc' = "returned"
                         /\ UNCHANGED << i, error >>
                    ELSE /\ error' = RecordError(error, r.err)
                         /\ i' = i + 1
                         /\ UNCHANGED << ret, pc >>)
  /\ UNCHANGED << fieldVars, objVars, codecVars, uri >>

\* After the loop: the recorded error is thrown, wrapped unless an InvalidURI.
ParseThrow ==
  /\ pc = "loop"
  /\ i > Len(UriTypes)
  /\ ret' = Thrown(DispatchError(uri, error), attempted)
  /\ pc' = "thrown"
  /\ UNCHANGED << fieldVars, objVars, codecVars, uri, i, error, attempted >>

NextDispatch ==
  \/ \E u \in UriInputs : ParseStart(u)
  \/ ParseTry
  \/ ParseThrow

SpecDispatch == Init /\ [][NextDispatch]_vars

\* ------------------------------------------------ URI objects as Configs
\* The URI classes extend Config: an object of one has the five setters of
\* Config, and a Sip002URI the plugin setter.  The records client code passes
\* to their constructors here; one has a method the constructor rejects.
UriObjectConfigs ==
  { UnsafeConfig(Str(S("192.168.100.1")), Str(S("8888")), m, Str(S("test")), t, g) :
      m \in { Str(S("aes-128-gcm")), Str(S("foo")) },
      t \in { Str(S("Foo Bar")), Undefined },
      g \in { Str(S("obfs-local;obfs=http")), Undefined } }

UriClasses == { UriTypes[k] : k \in 1..Len(UriTypes) }

\* new LegacyBase64URI(config) or new Sip002URI(config), kept by client code.
MakeUri(type, config) ==
  /\ op.name = "none"
  /\ Let(NewUri(type, config), LAMBDA r : obj' = r.v /\ thrown' = r.err)
  /\ op' = [ NoOp EXCEPT !.name = "new " \o type, !.config = config ]
  /\ calls' = 0
  /\ UNCHANGED << fieldVars, codecVars, dispatchVars >>

\* obj.<name> = value on an object of a URI class: the setter replaces the
\* held field and nothing else; what the constructor computed stays.
SetUriField(name, value, r) ==
  /\ obj.type \in UriClasses
  /\ name = "plugin" => obj.type = "Sip002URI"
  /\ calls < MaxCalls
  /\ obj' = IF r.ok THEN [ obj EXCEPT ![name] = r.v ] ELSE obj
  /\ thrown' = r.err
  /\ text' = << >>
  /\ op' = [ NoOp EXCEPT !.name = name, !.arg = value, !.before = obj ]
  /\ calls' = calls + 1
  /\ UNCHANGED << fieldVars, made, parsed, dispatchVars >>

\* obj.toString()
RenderUri ==
  /\ obj.type \in UriClasses
  /\ op.name # "toString"
  /\ text' = UriToString(obj)
  /\ op' = [ NoOp EXCEPT !.name = "toString", !.before = obj ]
  /\ thrown' = NoError
  /\ UNCHANGED << fieldVars, obj, calls, made, parsed, dispatchVars >>

NextUri ==
  \/ \E type \in UriClasses : \E config \in UriObjectConfigs : MakeUri(type, config)
  \/ \E value \in HostInputs : SetUriField("host", value, Host(value))
  \/ \E value \in PortInputs : SetUriField("port", value, Port(value))
  \/ \E value \in MethodInputs : SetUriField("method", value, Method(value))
  \/ \E value \in PasswordInputs : SetUriField("password", value, Password(value))
  \/ \E value \in TagInputs : SetUriField("tag", value, Tag(value))
  \/ \E value \in PluginInputs : SetUriField("plugin", value, Plugin(value))
  \/ RenderUri

SpecUri == Init /\ [][NextUri]_vars

\* ================================================================ claims
\* ------------------------------------------------- helpers of the claims
\* Whether v is a run of one or more decimal digits.
IsDecimal(v) == v # << >> /\ \A k \in 1..Len(v) : IsDigit(v[k])

\* Whether v is the decimal text of an integer in [0, 65535], leading zeros
\* allowed.
IsPortNumber(v) == IsDecimal(v) /\ PortValue(v, 0) <= 65535

\* Whether s is a prefix of t.
IsPrefix(s, t) == Len(s) <= Len(t) /\ SubSeq(t, 1, Len(s)) = s

\* Whether the character c occurs in s.
Has(s, c) == \E k \in 1..Len(s) : s[k] = c

\* The state after Stringify of the named class.
Stringified(type) == op.name = type

\* The state after the named class's parse of `text`.
ParsedBy(type) ==
  /\ parsed.steps # << >>
  /\ op.name = type \/ op.name = type \o ".parse"

\* The record makes a Config, and one whose port is the text of a number.
ValidConfig(config) == NewConfig(config).ok /\ IsPortNumber(NewConfig(config).v.port)

\* The payloads of two objects agree on the five fields of a Config.
SameFields(a, b) ==
  /\ a.method = b.method
  /\ a.password = b.password
  /\ a.host = b.host
  /\ a.port = b.port
  /\ a.tag = b.tag

\* ---------------------------------------------------------------- C1
\* C1 (as stated): for every valid Config, the legacy codec serializes it and
\* its own parse of the text succeeds with the method, password, host, port
\* and tag of the original.
C1_LegacyRoundTrip ==
  (Stringified("LegacyBase64URI") /\ ValidConfig(op.config)) =>
    /\ made.ok
    /\ parsed.steps # << >> =>
         parsed.ok /\ SameFields(parsed.v, NewConfig(op.config).v)

\* ---------------------------------------------------------------- C2
\* C2 (as stated): for every valid Config and every plugin, the SIP002 codec
\* serializes it and its own parse of the text succeeds with the method,
\* password, host, port, tag and plugin of the original.
C2_Sip002RoundTrip ==
  (Stringified("Sip002URI") /\ ValidConfig(op.config)) =>
    /\ made.ok
    /\ parsed.steps # << >> =>
         /\ parsed.ok
         /\ SameFields(parsed.v, NewConfig(op.config).v)
         /\ parsed.v.plugin = Plugin(op.config.plugin).v

\* ---------------------------------------------------------------- C3
\* The dispatcher's result is that of the last class attempted, which
\* succeeded, every class attempted before it having failed.
FirstSuccessReturned ==
  pc = "returned" =>
    /\ attempted # << >>
    /\ ret.ok
    /\ ret = ParseWith(attempted[Len(attempted)], uri)
    /\ ret.v.type = attempted[Len(attempted)]
    /\ \A k \in 1..(Len(attempted) - 1) : ~ParseWith(attempted[k], uri).ok

\* C3 (amended): the dispatcher attempts the parsers in the fixed order
\* legacy-base64 first, then SIP002, and returns the result of the first
\* parser that succeeds; once a parser has succeeded no later parser is
\* attempted, so for an input the legacy-base64 format accepts the
\* legacy-base64 result is the one returned.
C3_LegacyFirst ==
  /\ [](/\ IsPrefix(attempted, << "LegacyBase64URI", "Sip002URI" >>)
        /\ FirstSuccessReturned
        /\ (pc = "returned" /\ LegacyParse(uri).ok) => ret.v.type = "LegacyBase64URI")
  /\ [][pc = "returned" => attempted' = attempted]_vars

\* C3 (witness): the dispatcher has returned the legacy-base64 result and
\* the SIP002 parser was not attempted.
C3_Witness ==
  /\ pc = "returned"
  /\ attempted = << "LegacyBase64URI" >>
  /\ ret.v.type = "LegacyBase64URI"

\* C3 (as stated): the dispatcher attempts the parsers in the fixed order
\* SIP002 first, then legacy-base64, and returns the result of the first that
\* succeeds.
C3_Sip002First ==
  /\ IsPrefix(attempted, << "Sip002URI", "LegacyBase64URI" >>)
  /\ FirstSuccessReturned

\* ---------------------------------------------------------------- C4
\* The failure of the first class the dispatcher attempted.
FirstFailure == ParseWith(attempted[1], uri).err

\* C4: when every parser fails the dispatcher throws an InvalidURI: the first
\* failure itself when that is an InvalidURI, else a new one that embeds the
\* input and the first failure's name and message; a later failure never
\* replaces the recorded one; "", "not a URI" and "ss://not-base64" fail with
\* InvalidURI.
C4_ThrowsInvalidURI ==
  /\ (pc = "loop" /\ error # NoError) => error = FirstFailure
  /\ pc = "thrown" =>
       /\ ~ret.ok
       /\ ret.err.name = "InvalidURI"
       /\ \A k \in 1..Len(attempted) : ~ParseWith(attempted[k], uri).ok
       /\ IF FirstFailure.name = "InvalidURI" THEN ret.err = FirstFailure
          ELSE /\ ret.err.arg = uri
               /\ ret.err.cause = << [ name |-> FirstFailure.name, text |-> FirstFailure.text,
                                       arg |-> FirstFailure.arg ] >>
  /\ (pc \in { "returned", "thrown" }
      /\ uri \in { S(""), S("not a URI"), S("ss://not-base64") }) =>
       pc = "thrown" /\ ret.err.name = "InvalidURI"

\* C4 (witness): both parsers failed with different errors, the first not an
\* InvalidURI, and the dispatcher threw the InvalidURI that wraps the first.
C4_Witness ==
  /\ pc = "thrown"
  /\ Len(attempted) = 2
  /\ FirstFailure.name # "InvalidURI"
  /\ ParseWith(attempted[2], uri).err # FirstFailure
  /\ ret.err.cause # << >>

\* ---------------------------------------------------------------- C5
\* C5 (as stated): every field a Config holds is a valid normalized payload:
\* host a non-empty accepted host, port the decimal string of an integer in
\* [0, 65535], method a member of the whitelist.
C5_ConfigValid ==
  obj.type = "Config" =>
    /\ obj.host # << >>
    /\ Host(Str(obj.host)).ok
    /\ IsPortNumber(obj.port)
    /\ obj.port = NatToString(PortValue(obj.port, 0))
    /\ obj.method \in METHODS

\* ---------------------------------------------------------------- C6
\* Whether a required field of the record is missing or invalid.
Unusable(kind, raw) == IsUndefined(raw) \/ ~Validate(kind, raw).ok

\* C6 (as stated): construction validates host, port, method in this order
\* and fails with the InvalidConfigField of the first that is missing or
\* invalid, returning no object; otherwise it returns a Config whose missing
\* password and tag are the empty string.
C6_ConstructionOrder ==
  op.name = "new Config" =>
    IF Unusable("Host", op.config.host)
      THEN obj.type = "none" /\ thrown = InvalidConfigField("host", Interpolate(op.config.host))
    ELSE IF Unusable("Port", op.config.port)
      THEN obj.type = "none" /\ thrown = InvalidConfigField("port", Interpolate(op.config.port))
    ELSE IF Unusable("Method", op.config.method)
      THEN obj.type = "none"
           /\ thrown = InvalidConfigField("method", Interpolate(op.config.method))
    ELSE /\ obj.type = "Config"
         /\ thrown = NoError
         /\ obj.password = OrEmpty(op.config.password)
         /\ obj.tag = OrEmpty(op.config.tag)

\* ---------------------------------------------------------------- C7
\* C7 (as stated): Port accepts every integer in [0, 65535], given as an
\* integer or as decimal text with leading zeros, with the decimal text of
\* the integer as payload; it rejects every other string or number with
\* InvalidConfigField.
C7_PortValidate ==
  (field.kind = "Port" /\ ~IsUndefined(field.raw)) =>
    IF IsPortNumber(field.raw.v)
    THEN field.res.ok /\ field.res.v = NatToString(PortValue(field.raw.v, 0))
    ELSE ~field.res.ok /\ field.res.err = InvalidConfigField("port", field.raw.v)

\* ---------------------------------------------------------------- C8
\* C8 (as stated): whenever a field type's validation of x succeeds with
\* payload p, its validation of p succeeds with payload p.
C8_Idempotent ==
  field.again # << >> => field.again[1].ok /\ field.again[1].v = field.res.v

\* ---------------------------------------------------------------- C9
\* The host as the claim writes it into a URI: in brackets when it is an IPv6
\* literal that has none.
HostForUri(h) ==
  IF h # << >> /\ h[1] # "[" /\ Has(h, ":") THEN << "[" >> \o h \o << "]" >> ELSE h

\* C9 (as stated): the SIP002 text is "ss://" base64(method:password) "@"
\* hostForUri ":" port "/" queryString tagFragment, queryString being
\* "?plugin=" and the percent-encoded plugin when there is one, tagFragment
\* "#" and the percent-encoded tag when there is one.
C9_Sip002Format ==
  (Stringified("Sip002URI") /\ made.ok) =>
    text = SsPrefix \o b64Encode(made.v.method \o << ":" >> \o made.v.password) \o << "@" >>
           \o HostForUri(made.v.host) \o << ":" >> \o made.v.port \o << "/" >>
           \o (IF made.v.plugin # << >>
               THEN S("?plugin=") \o encodeURIComponent(made.v.plugin) ELSE << >>)
           \o (IF made.v.tag # << >>
               THEN << "#" >> \o encodeURIComponent(made.v.tag) ELSE << >>)

\* --------------------------------------------------------------- C10
\* The decoded data of the legacy URI in `text`, once it has been decoded.
LegacyDecoded ==
  /\ ParsedBy("LegacyBase64URI")
  /\ validateProtocol(text)
  /\ LegacyParseLocals(text).tagText.ok
  /\ LegacyParseLocals(text).decoded.ok

\* What the parse throws for decoded data without its '@', or without the
\* ':' of method:password.
MissingLeftSeparators ==
  LET l == LegacyParseLocals(text)
  IN  /\ ~Has(l.b64DecodedData, "@") =>
           parsed.err = InvalidURI("Missing \"@\": ", l.b64DecodedData)
      /\ (Has(l.b64DecodedData, "@") /\ ~Has(l.methodAndPassword, ":")) =>
           parsed.err = InvalidURI("Missing password part: ", l.methodAndPassword)

\* Decoded data that has its '@' and the ':' of method:password but not the
\* ':' of host:port.
MissingPortPart ==
  LET l == LegacyParseLocals(text)
  IN  /\ LegacyDecoded
      /\ Has(l.b64DecodedData, "@")
      /\ Has(l.methodAndPassword, ":")
      /\ ~Has(l.hostAndPort, ":")

\* C10 (amended): LegacyBase64URI.parse looks for '@', then for the ':' of
\* method:password, constructs Method and Password, and only then looks for
\* the ':' of host:port, before it constructs Host and Port.  Decoded data
\* without '@' or without the first ':' fails with the corresponding
\* InvalidURI whatever its substrings; decoded data without the ':' of
\* host:port fails with "missing port part" when its method is valid, and
\* with the method's InvalidConfigField when it is not.
C10_LegacyParseOrder ==
  /\ ParsedBy("LegacyBase64URI") =>
       IsPrefix(parsed.steps,
                << "validateProtocol", "Tag", "b64Decode", "find @",
                   "find : in method:password", "Method", "Password",
                   "find : in host:port", "Host", "Port", "LegacyBase64URI" >>)
  /\ LegacyDecoded => MissingLeftSeparators
  /\ MissingPortPart =>
       IF LegacyParseLocals(text).method.ok
       THEN parsed.err = InvalidURI("Missing port part: ", LegacyParseLocals(text).hostAndPort)
       ELSE parsed.err = LegacyParseLocals(text).method.err

\* C10 (witness): decoded data with an invalid method and no ':' in
\* host:port has failed with the method's InvalidConfigField.
C10_Witness ==
  /\ MissingPortPart
  /\ ~LegacyParseLocals(text).method.ok
  /\ parsed.err.name = "InvalidConfigField"
  /\ parsed.steps[Len(parsed.steps)] = "Method"

\* C10 (as stated): Method, Password, Host and Port are constructed only
\* after the three separators have been found, so decoded data that lacks one
\* of them fails with the corresponding InvalidURI whatever its substrings.
C10_SeparatorsFirst ==
  /\ LegacyDecoded => MissingLeftSeparators
  /\ MissingPortPart =>
       parsed.err = InvalidURI("Missing port part: ", LegacyParseLocals(text).hostAndPort)

\* --------------------------------------------------------------- C11
\* A class's own parse of `text` has thrown.
ParseFailed == parsed.steps # << >> /\ ~parsed.ok

\* The statement of the parse that threw.
FailedAt == parsed.steps[Len(parsed.steps)]

\* The statements of the two parses that look for a separator.
SeparatorStages == { "find @", "find : in method:password", "find : in host:port" }

\* The statements of the two parses that construct a validated field, the
\* final constructor included.
FieldStages == { "Host", "Port", "Method", "LegacyBase64URI", "Sip002URI" }

IsDottedQuad(v) ==
  LET parts == SplitOn(v, ".")
  IN  /\ Len(parts) = 4
      /\ \A k \in 1..4 : /\ IsDecimal(parts[k])
                          /\ Len(parts[k]) <= 3
                          /\ PortValue(parts[k], 0) <= 255
                          /\ parts[k] = NatToString(PortValue(parts[k], 0))

\* Whether v is an IPv6 literal in the colon form, without brackets.
IsIPv6Literal(v) == v # << >> /\ v[1] # "[" /\ Has(v, ":") /\ ParseIPv6(v).ok

\* C12 (as stated, for the payload the claim fixes): Host accepts an
\* unbracketed colon-form IPv6 literal with the input as its payload, and a
\* dotted-quad IPv4 literal with the input as its payload.
C12_HostAcceptsLiterals ==
  (field.kind = "Host" /\ IsStr(field.raw)) =>
    /\ IsIPv6Literal(field.raw.v) => field.res.ok /\ field.res.v = field.raw.v
    /\ IsDottedQuad(field.raw.v) => field.res.ok /\ field.res.v = field.raw.v

\* --------------------------------------------------------------- C13
\* The query of `text` as Sip002URI.parse's URL parser reads it.
TextQuery == URLParse(S("http") \o SubstringFrom(text, 2)).query

\* The query parameters of `text` other than `plugin`, in order of
\* appearance, with their decoded values.
OtherParams == SelectSeq(SearchParams(TextQuery), LAMBDA q : q.name # PluginName)

\* The plugin of what Sip002URI.parse returned is the value of the `plugin`
\* parameter when that is present and not empty, and is empty otherwise.
PluginFromQuery ==
  parsed.v.plugin = IF SearchParamsGet(TextQuery, PluginName).found
                    THEN SearchParamsGet(TextQuery, PluginName).v ELSE << >>

\* C13 (as stated): Sip002URI.parse sets the plugin from the `plugin` query
\* parameter if and only if it is present and not empty, and every other
\* query parameter is held by the parsed object in an extra mapping, under
\* its name, with its decoded value, in order of appearance.
C13_QueryHandling ==
  (ParsedBy("Sip002URI") /\ parsed.ok) =>
    /\ PluginFromQuery
    /\ OtherParams # << >> =>
         "extra" \in DOMAIN parsed.v /\ parsed.v.extra = OtherParams

\* --------------------------------------------------------------- C14
\* The base64 segment of a legacy URI: what lies between "ss://" and the
\* first '#'.
SegmentOf(u) ==
  Substring(u, Len(SsPrefix), IF IndexOf(u, "#") = -1 THEN Len(u) ELSE IndexOf(u, "#"))

\* The fragment of a legacy URI: the first '#' and what follows it.
FragmentOf(u) == IF IndexOf(u, "#") = -1 THEN << >> ELSE SubstringFrom(u, IndexOf(u, "#"))

RECURSIVE Unpadded(_)
\* A base64 text without its trailing '=' characters.
Unpadded(s) == IF s # << >> /\ s[Len(s)] = "=" THEN Unpadded(SubSeq(s, 1, Len(s) - 1)) ELSE s

\* A base64 text with the '=' characters that complete its last group of four.
Padded(s) ==
  Unpadded(s) \o (CASE Len(Unpadded(s)) % 4 = 2 -> << "=", "=" >>
                    [] Len(Unpadded(s)) % 4 = 3 -> << "=" >>
                    [] OTHER -> << >>)

\* The legacy URI `text` with its base64 segment unpadded, and padded.
TextUnpadded == SsPrefix \o Unpadded(SegmentOf(text)) \o FragmentOf(text)
TextPadded == SsPrefix \o Padded(SegmentOf(text)) \o FragmentOf(text)

\* The base64 of the fields of the object serialized, padding included.
EncodedFields ==
  b64Encode(made.v.method \o << ":" >> \o made.v.password \o << "@" >> \o made.v.host
            \o << ":" >> \o made.v.port)

\* C14: the legacy text is "ss://", the base64 of method:password@host:port
\* without its trailing '=' characters, and the tag fragment; and
\* LegacyBase64URI.parse gives the same result for a text whose base64
\* segment is padded and for the same text with the segment unpadded.
C14_LegacyPadding ==
  /\ (Stringified("LegacyBase64URI") /\ made.ok) =>
       /\ text = SsPrefix \o Unpadded(EncodedFields) \o getHash(made.v)
       /\ SegmentOf(text) = << >> \/ SegmentOf(text)[Len(SegmentOf(text))] # "="
       /\ Len(EncodedFields) - Len(SegmentOf(text)) \in 0..2
  /\ (ParsedBy("LegacyBase64URI") /\ validateProtocol(text)) =>
       /\ LegacyParse(TextPadded).ok = LegacyParse(TextUnpadded).ok
       /\ LegacyParse(TextPadded).v = LegacyParse(TextUnpadded).v
       /\ text \in { TextPadded, TextUnpadded } => parsed.v = LegacyParse(TextPadded).v

\* C14 (witness): an object whose base64 needs padding was serialized without
\* it, and the parse has accepted the text, as it accepts the padded one.
C14_Witness ==
  /\ Stringified("LegacyBase64URI")
  /\ made.ok
  /\ Len(EncodedFields) > Len(SegmentOf(text))
  /\ parsed.ok
  /\ TextPadded # text
  /\ LegacyParse(TextPadded).ok

\* --------------------------------------------------------------- C15
\* A fresh object of obj's class, constructed from obj's current fields.
FreshUri == NewUri(obj.type, AsUnsafeConfig(obj))

\* C15 (as stated): after any sequence of successful setter calls on an
\* object of a URI class, toString() is the toString() of a fresh object of
\* the class constructed from the object's current fields.
C15_ToStringTracksFields ==
  (op.name = "toString" /\ FreshUri.ok) => text = UriToString(FreshUri.v)

\* --------------------------------------------------------------- C16
\* The five fields of a Config, and the field type of each.
ConfigFields == { "host", "port", "method", "password", "tag" }
KindOf(name) ==
  CASE name = "host" -> "Host" [] name = "port" -> "Port" [] name = "method" -> "Method"
    [] name = "password" -> "Password" [] name = "tag" -> "Tag"

\* C16: a setter call on a Config that throws, throws the field's
\* InvalidConfigField and leaves the five fields, the targeted one included,
\* as they were; a setter call that returns replaces the targeted field by
\* the validated value and leaves the other four as they were.
C16_SetterFrame ==
  (obj.type = "Config" /\ op.name \in ConfigFields) =>
    /\ thrown # NoError <=> ~Validate(KindOf(op.name), op.arg).ok
    /\ thrown # NoError =>
         /\ thrown = InvalidConfigField(op.name, Interpolate(op.arg))
         /\ op.name \in { "host", "port", "method" }
         /\ \A f \in ConfigFields : obj[f] = op.before[f]
    /\ thrown = NoError =>
         /\ obj[op.name] = Validate(KindOf(op.name), op.arg).v
         /\ \A f \in ConfigFields \ { op.name } : obj[f] = op.before[f]

\* C16 (witness): a port setter has thrown on a Config, which still holds
\* its port.
C16_Witness ==
  /\ obj.type = "Config"
  /\ op.name = "port"
  /\ thrown.name = "InvalidConfigField"
  /\ obj.port # << >>
  /\ obj.port = op.before.port

Spec == SpecConfig
====
